---- MODULE Spec2Model ----
\* Verification model of the table-extraction engine of parser-rosstat-kep:
\*   kep/csv2df/parser.py          (segmenter, header resolution, observations)
\*   kep/pipeline/reader/boundaries.py (get_boundaries)
\*   kep/spec.py                   (Scope, UNITS)
\* Text is modelled as a sequence of one-character strings, a row as a
\* sequence of cells, so that substring and prefix tests are computed.
EXTENDS Integers, Sequences, FiniteSets, TLC

VARIABLES
    rows,       \* parser: the input row sequence of evaluate_assignment
    pdef,       \* parser: the parsing definition
    pc,         \* parser: position inside evaluate_assignment
    i,          \* parser: number of rows consumed by split_to_tables
    headers,    \* parser: split_to_tables local list
    datarows,   \* parser: split_to_tables local list
    state,      \* parser: split_to_tables local State
    tables,     \* parser: tables emitted so far, later the parsed tables
    result,     \* parser: what evaluate_assignment returned or raised
    b_in,       \* boundaries: arguments of get_boundaries
    b_out,      \* boundaries: what get_boundaries returned or raised
    sc_markers, \* Scope: the private list __markers
    sc_alive,   \* Scope: TRUE once the constructor has returned
    sc_rows,    \* Scope: argument of the last get_bounds call
    sc_out,     \* Scope: outcome of the last constructor/add_bounds/get_bounds call
    ts_in,      \* DataBlock: one data row, its label and splitter
    ts_out,     \* DataBlock: the stream of _extract_values for that row
    cp_in,      \* checkpoints: the dataframe and the list of checkpoints
    cp_out,     \* checkpoints: outcome of isin, require or expect
    un_in,      \* units: a header row given to get_unit
    un_out,     \* units: the unit get_unit resolved for it
    pd_in,      \* definition: the arguments of make_parsing_definition
    pd_out      \* definition: the definition it returned

vars == <<rows, pdef, pc, i, headers, datarows, state, tables, result,
          b_in, b_out, sc_markers, sc_alive, sc_rows, sc_out, ts_in, ts_out,
          cp_in, cp_out,
          un_in, un_out,
          pd_in, pd_out>>

parser_vars == <<rows, pdef, pc, i, headers, datarows, state, tables, result>>
bounds_vars == <<b_in, b_out>>
scope_vars  == <<sc_markers, sc_alive, sc_rows, sc_out>>
ts_vars     == <<ts_in, ts_out>>
cp_vars     == <<cp_in, cp_out>>
un_vars     == <<un_in, un_out>>
pd_vars     == <<pd_in, pd_out>>

\* Python's None (also standing for the falsy False some lookups return).
None == "None"

-----------------------------------------------------------------------------
\* Text helpers

Digits == {"0", "1", "2", "3", "4", "5", "6", "7", "8", "9"}

DigitVal(c) ==
    CASE c = "0" -> 0 [] c = "1" -> 1 [] c = "2" -> 2 [] c = "3" -> 3
      [] c = "4" -> 4 [] c = "5" -> 5 [] c = "6" -> 6 [] c = "7" -> 7
      [] c = "8" -> 8 [] c = "9" -> 9

Min(a, b) == IF a < b THEN a ELSE b

\* s[:n]
Take(s, n) == SubSeq(s, 1, Min(n, Len(s)))

\* s[n:] (0-based n, as in Python)
Drop(s, n) == SubSeq(s, n + 1, Len(s))

\* Python's str.startswith
StartsWith(s, prefix) ==
    /\ Len(prefix) <= Len(s)
    /\ SubSeq(s, 1, Len(prefix)) = prefix

\* Python's `k in s` for strings
Contains(s, k) ==
    \E j \in 1..(Len(s) - Len(k) + 1) : SubSeq(s, j, j + Len(k) - 1) = k

RECURSIVE LStrip(_)
LStrip(s) == IF s # <<>> /\ Head(s) = " " THEN LStrip(Tail(s)) ELSE s

RECURSIVE RStrip(_)
RStrip(s) ==
    IF s # <<>> /\ s[Len(s)] = " " THEN RStrip(SubSeq(s, 1, Len(s) - 1)) ELSE s

\* Python's str.strip
Strip(s) == RStrip(LStrip(s))

-----------------------------------------------------------------------------
\* Numeric Cell Parser (kep.csv2df.util.to_float), spec section 4.1

Placeholders == {<<"-">>, <<"--">>}

CommaToDot(s) == [j \in 1..Len(s) |-> IF s[j] = "," THEN "." ELSE s[j]]

\* digits with at most one decimal point, at least one digit
IsNumeric(s) ==
    /\ s # <<>>
    /\ \A j \in 1..Len(s) : s[j] \in Digits \cup {"."}
    /\ \E j \in 1..Len(s) : s[j] \in Digits
    /\ Cardinality({j \in 1..Len(s) : s[j] = "."}) <= 1

\* kind "float": v is the normalised numeral; kind "None": absent value;
\* kind "MalformedNumber": the parser raised.
to_float(text) ==
    LET t == Strip(text)
        n == CommaToDot(t)
    IN  IF t = <<>> \/ t \in Placeholders
        THEN [kind |-> "None", v |-> <<>>]
        ELSE IF IsNumeric(n)
             THEN [kind |-> "float", v |-> n]
             ELSE [kind |-> "MalformedNumber", v |-> t]

-----------------------------------------------------------------------------
\* Row (kep.csv2df.row_model.Row), spec section 4.2

RowName(row) == row[1]

RowData(row) == Tail(row)

YearDigits == 4

\* first cell matches a 4-digit year, optionally followed by a footnote marker
is_year(cell) ==
    /\ Len(cell) >= YearDigits
    /\ \A j \in 1..YearDigits : cell[j] \in Digits

RowYear(row) ==
    LET c == RowName(row)
    IN  1000 * DigitVal(c[1]) + 100 * DigitVal(c[2])
          + 10 * DigitVal(c[3]) + DigitVal(c[4])

\* data row: year in the first cell and every following cell empty or
\* accepted by the Numeric Cell Parser; every other row is a header row
is_datarow(row) ==
    /\ is_year(RowName(row))
    /\ \A j \in 1..Len(RowData(row)) :
          to_float(RowData(row)[j]).kind # "MalformedNumber"

\* Row.startswith: the first cell, trimmed, begins with the prefix
RowStartsWith(row, prefix) == StartsWith(Strip(RowName(row)), prefix)

\* len(Row): the number of cells after the year cell
RowLen(row) == Len(RowData(row))

\* first entry, in registration order, whose phrase occurs in the first cell
RECURSIVE FirstMatch(_, _)
FirstMatch(name, mapping) ==
    IF mapping = <<>> THEN None
    ELSE IF Contains(name, Head(mapping).k) THEN Head(mapping).v
         ELSE FirstMatch(name, Tail(mapping))

get_varname(row, varnames_dict) == FirstMatch(RowName(row), varnames_dict)

get_unit(row, units_dict) == FirstMatch(RowName(row), units_dict)

-----------------------------------------------------------------------------
\* Label (kep.csv2df.util.label.make_label), spec section 3

make_label(varname, unit) ==
    IF varname = None \/ unit = None THEN None ELSE varname \o "_" \o unit

-----------------------------------------------------------------------------
\* Row Splitter Registry (kep.csv2df.util.row_splitter), spec section 4.4
\* A splitter returns (annual cell, quarterly cells, monthly cells); an
\* absent annual value is the empty text.

Quarters == 4

Months == 12

CellAt(data, n) == IF n <= Len(data) THEN data[n] ELSE <<>>

Slice(data, from, to) == SubSeq(data, Min(from, Len(data) + 1), Min(to, Len(data)))

split_row(splitter_func, data) ==
    CASE splitter_func = "a_q" ->
            [a |-> CellAt(data, 1), q |-> Slice(data, 2, 1 + Quarters), m |-> <<>>]
      [] splitter_func = "a_q_m" ->
            [a |-> CellAt(data, 1), q |-> Slice(data, 2, 1 + Quarters),
             m |-> Slice(data, 2 + Quarters, 1 + Quarters + Months)]
      [] splitter_func = "a_m" ->
            [a |-> CellAt(data, 1), q |-> <<>>, m |-> Slice(data, 2, 1 + Months)]
      [] splitter_func = "q" ->
            [a |-> <<>>, q |-> Slice(data, 1, Quarters), m |-> <<>>]
      [] splitter_func = "m" ->
            [a |-> <<>>, q |-> <<>>, m |-> Slice(data, 1, Months)]

SplitterNames == {"a_q", "a_q_m", "a_m", "q", "m"}

\* lookup by explicit strategy name
get_splitter_by_name(key) ==
    IF key \in SplitterNames THEN key ELSE "UnknownRowShape"

\* lookup by column count
get_splitter_by_count(key) ==
    CASE key = 1 + Quarters + Months -> "a_q_m"
      [] key = 1 + Quarters -> "a_q"
      [] key = 1 + Months -> "a_m"
      [] key = Months -> "m"
      [] key = Quarters -> "q"
      [] OTHER -> "UnknownRowShape"

-----------------------------------------------------------------------------
\* Timestamps (parser.py 147-157); a pandas Timestamp is [y, m, d]

IsLeap(y) == (y % 4 = 0 /\ y % 100 # 0) \/ y % 400 = 0

DaysInMonth(y, m) ==
    CASE m = 2 -> IF IsLeap(y) THEN 29 ELSE 28
      [] m \in {4, 6, 9, 11} -> 30
      [] OTHER -> 31

\* pd.Timestamp(year, month, day): invalid month or day raises
Timestamp(y, m, d) ==
    IF m \in 1..12 /\ d \in 1..DaysInMonth(y, m)
    THEN [y |-> y, m |-> m, d |-> d]
    ELSE [y |-> y, m |-> 0, d |-> 0]

\* ts + pd.offsets.MonthEnd(): the next month end strictly after ts
PlusMonthEnd(ts) ==
    IF ts.m = 0 THEN ts
    ELSE IF ts.d < DaysInMonth(ts.y, ts.m)
    THEN [ts EXCEPT !.d = DaysInMonth(ts.y, ts.m)]
    ELSE IF ts.m = 12
         THEN [y |-> ts.y + 1, m |-> 1, d |-> DaysInMonth(ts.y + 1, 1)]
         ELSE [y |-> ts.y, m |-> ts.m + 1, d |-> DaysInMonth(ts.y, ts.m + 1)]

timestamp_annual(year) == Timestamp(year, 12, 31)

\* timestamp_month without the MonthEnd offset
timestamp_month_no_offset(year, month) == Timestamp(year, month, 1)

timestamp_month(year, month) == PlusMonthEnd(Timestamp(year, month, 1))

timestamp_quarter(year, quarter) == timestamp_month(year, quarter * 3)

-----------------------------------------------------------------------------
\* DataBlock (parser.py 106-142)

make_datapoint(label, value, time_stamp, freq) ==
    [label |-> label, value |-> to_float(value),
     time_index |-> time_stamp, freq |-> freq]

\* the datapoints _extract_values yields for one data row
extract_row(row, label, splitter_func) ==
    LET year == RowYear(row)
        sp   == split_row(splitter_func, RowData(row))
        a    == IF sp.a # <<>>
                THEN <<make_datapoint(label, sp.a, timestamp_annual(year), "a")>>
                ELSE <<>>
        q    == [t \in 1..Len(sp.q) |->
                   make_datapoint(label, sp.q[t], timestamp_quarter(year, t), "q")]
        m    == [t \in 1..Len(sp.m) |->
                   make_datapoint(label, sp.m[t], timestamp_month(year, t), "m")]
    IN  a \o q \o m

RECURSIVE _extract_values(_, _, _)
_extract_values(drows, label, splitter_func) ==
    IF drows = <<>> THEN <<>>
    ELSE extract_row(Head(drows), label, splitter_func)
            \o _extract_values(Tail(drows), label, splitter_func)

has_value(d) == d.value.kind # "None"

\* filter(has_value, stream)
RECURSIVE Filter_has_value(_)
Filter_has_value(stream) ==
    IF stream = <<>> THEN <<>>
    ELSE IF has_value(Head(stream))
         THEN <<Head(stream)>> \o Filter_has_value(Tail(stream))
         ELSE Filter_has_value(Tail(stream))

\* extract_values without the filter on None values
extract_values_unfiltered(drows, label, splitter_func) ==
    _extract_values(drows, label, splitter_func)

extract_values(drows, label, splitter_func) ==
    Filter_has_value(_extract_values(drows, label, splitter_func))

-----------------------------------------------------------------------------
\* HeaderParser and Table (parser.py 75-103, 160-193)

\* set_label keeping the first unit found instead of the last
RECURSIVE header_set_label_first_unit(_, _, _, _)
header_set_label_first_unit(hrows, varnames_dict, units_dict, acc) ==
    IF hrows = <<>> THEN acc
    ELSE LET row     == Head(hrows)
             varname == get_varname(row, varnames_dict)
             unit    == get_unit(row, units_dict)
         IN  header_set_label_first_unit(Tail(hrows), varnames_dict, units_dict,
                [varname   |-> IF varname # None THEN varname ELSE acc.varname,
                 unit      |-> IF unit # None /\ acc.unit = None THEN unit
                               ELSE acc.unit,
                 is_parsed |-> Append(acc.is_parsed,
                                      varname # None \/ unit # None)])

\* set_label marking a row parsed only when it matched a variable name
RECURSIVE header_set_label_varname_only(_, _, _, _)
header_set_label_varname_only(hrows, varnames_dict, units_dict, acc) ==
    IF hrows = <<>> THEN acc
    ELSE LET row     == Head(hrows)
             varname == get_varname(row, varnames_dict)
             unit    == get_unit(row, units_dict)
         IN  header_set_label_varname_only(Tail(hrows), varnames_dict, units_dict,
                [varname   |-> IF varname # None THEN varname ELSE acc.varname,
                 unit      |-> IF unit # None THEN unit ELSE acc.unit,
                 is_parsed |-> Append(acc.is_parsed, varname # None)])

\* HeaderParser.set_label: the loop over header rows, from the state acc
RECURSIVE header_set_label(_, _, _, _)
header_set_label(hrows, varnames_dict, units_dict, acc) ==
    IF hrows = <<>> THEN acc
    ELSE LET row     == Head(hrows)
             varname == get_varname(row, varnames_dict)
             unit    == get_unit(row, units_dict)
         IN  header_set_label(Tail(hrows), varnames_dict, units_dict,
                [varname   |-> IF varname # None THEN varname ELSE acc.varname,
                 unit      |-> IF unit # None THEN unit ELSE acc.unit,
                 is_parsed |-> Append(acc.is_parsed,
                                      varname # None \/ unit # None)])

\* Table.__init__
Table(hrows, drows) ==
    [header        |-> hrows,
     is_parsed     |-> [j \in 1..Len(hrows) |-> FALSE],
     datarows      |-> drows,
     varname       |-> None,
     unit          |-> None,
     splitter_func |-> None]

\* Table.label
label(t) == make_label(t.varname, t.unit)

\* Table.set_label
set_label(t, varnames_dict, units_dict) ==
    LET r == header_set_label(t.header, varnames_dict, units_dict,
                [varname |-> None, unit |-> None, is_parsed |-> <<>>])
    IN  [t EXCEPT !.varname = r.varname, !.unit = r.unit,
                  !.is_parsed = r.is_parsed]

RECURSIVE MaxLen(_)
MaxLen(drows) ==
    IF Len(drows) = 1 THEN RowLen(drows[1])
    ELSE LET rest == MaxLen(Tail(drows))
         IN  IF RowLen(Head(drows)) > rest THEN RowLen(Head(drows)) ELSE rest

count_columns(drows) == MaxLen(drows)

\* Table.set_splitter: key = reader or count_columns(self.datarows)
set_splitter(t, reader) ==
    [t EXCEPT !.splitter_func =
        IF reader # "" THEN get_splitter_by_name(reader)
        ELSE get_splitter_by_count(count_columns(t.datarows))]

is_defined(t) == label(t) # None /\ t.splitter_func # None

\* HeaderParser.is_parsed negated
has_unknown_lines(t) == ~ (\A j \in 1..Len(t.is_parsed) : t.is_parsed[j])

\* Table.values: the filtered stream, or the error to_float raised
values(t) ==
    IF is_defined(t)
    THEN LET raw == _extract_values(t.datarows, label(t), t.splitter_func)
         IN  IF \E j \in 1..Len(raw) : raw[j].value.kind = "MalformedNumber"
             THEN [kind |-> "error", v |-> <<>>]
             ELSE [kind |-> "ok", v |-> Filter_has_value(raw)]
    ELSE [kind |-> "ok", v |-> <<>>]

-----------------------------------------------------------------------------
\* parse_tables and verify_tables (parser.py 24-42)

\* first loop of parse_tables
RECURSIVE assign_all(_, _)
assign_all(ts, pd) ==
    IF ts = <<>> THEN <<>>
    ELSE <<set_label(set_splitter(Head(ts), pd.reader), pd.mapper, pd.units)>>
            \o assign_all(Tail(ts), pd)

\* carry_step without the test on unknown lines
carry_step_unchecked(ts, k) ==
    IF ts[k].varname = None
    THEN [ts EXCEPT ![k].varname = ts[k - 1].varname]
    ELSE ts

\* carry_step copying the unit of the previous table too
carry_step_with_unit(ts, k) ==
    IF ts[k].varname = None /\ ~ has_unknown_lines(ts[k])
    THEN [ts EXCEPT ![k].varname = ts[k - 1].varname, ![k].unit = ts[k - 1].unit]
    ELSE ts

\* one iteration of the second loop of parse_tables, on the pair (k-1, k)
carry_step(ts, k) ==
    IF ts[k].varname = None /\ ~ has_unknown_lines(ts[k])
    THEN [ts EXCEPT ![k].varname = ts[k - 1].varname]
    ELSE ts

\* second loop of parse_tables: pairs in list order, tables updated in place
RECURSIVE carry_forward(_, _)
carry_forward(ts, k) ==
    IF k > Len(ts) THEN ts ELSE carry_forward(carry_step(ts, k), k + 1)

raises_unknown_shape(ts) ==
    \E j \in 1..Len(ts) : ts[j].splitter_func = "UnknownRowShape"

parse_tables(ts, pd) == carry_forward(assign_all(ts, pd), 2)

Range(f) == {f[j] : j \in DOMAIN f}

labels_in_tables(ts) == {label(ts[j]) : j \in 1..Len(ts)}

\* verify_tables: the labels it reports missed (empty: it returns)
labels_missed(ts, pd) == Range(pd.required_labels) \ labels_in_tables(ts)

\* the list of tables without the filter on required labels
all_tables(ts, pd) == ts

\* [t for t in tables if t.label in pdef.required_labels]
RECURSIVE required_tables(_, _)
required_tables(ts, pd) ==
    IF ts = <<>> THEN <<>>
    ELSE IF label(Head(ts)) \in Range(pd.required_labels)
         THEN <<Head(ts)>> \o required_tables(Tail(ts), pd)
         ELSE required_tables(Tail(ts), pd)

\* the values of the tables concatenated last table first
RECURSIVE all_values_reversed(_)
all_values_reversed(ts) ==
    IF ts = <<>> THEN [kind |-> "ok", v |-> <<>>]
    ELSE LET h == values(Head(ts))
             r == all_values_reversed(Tail(ts))
         IN  IF h.kind = "error" \/ r.kind = "error"
             THEN [kind |-> "error", v |-> <<>>]
             ELSE [kind |-> "ok", v |-> r.v \o h.v]

\* [v for t in tables for v in t.values]
RECURSIVE all_values(_)
all_values(ts) ==
    IF ts = <<>> THEN [kind |-> "ok", v |-> <<>>]
    ELSE LET h == values(Head(ts))
             r == all_values(Tail(ts))
         IN  IF h.kind = "error" \/ r.kind = "error"
             THEN [kind |-> "error", v |-> <<>>]
             ELSE [kind |-> "ok", v |-> h.v \o r.v]

-----------------------------------------------------------------------------
\* Inputs of the extraction: header and data rows, parsing definitions

MaxRows == 4

H_var   == << <<"G">> >>
H_both  == << <<"G", "b">> >>
H_unit  == << <<"p", "y">> >>
H_unk   == << <<"x">> >>
R_bad   == << <<"1", "9", "9", "9">>, <<"n", "/", "a", "?">> >>
D_vals  == << <<"1", "9", "9", "9">>, <<"1">>, <<"2", ",", "5">>, <<>>,
              <<"-">>, <<" ", "3">> >>
D_empty == << <<"2", "0", "0", "0">>, <<>>, <<>>, <<>>, <<>>, <<>> >>
D_short == << <<"2", "0", "0", "1", ")">>, <<"7">> >>

RowPool == {H_var, H_both, H_unit, H_unk, R_bad, D_vals, D_empty, D_short}

Mapper == << [k |-> <<"G">>, v |-> "GDP"] >>

\* the compound phrase registered before the phrase it contains
UnitsSpecificFirst ==
    << [k |-> <<"p", "y">>, v |-> "ytd"],
       [k |-> <<"y">>, v |-> "yoy"],
       [k |-> <<"b">>, v |-> "bln_rub"] >>

\* the contained phrase registered first
UnitsGeneralFirst ==
    << [k |-> <<"y">>, v |-> "yoy"],
       [k |-> <<"p", "y">>, v |-> "ytd"],
       [k |-> <<"b">>, v |-> "bln_rub"] >>

PdefPool ==
    { [mapper |-> Mapper, units |-> UnitsSpecificFirst,
       required_labels |-> <<"GDP_bln_rub", "GDP_ytd">>, reader |-> ""],
      [mapper |-> Mapper, units |-> UnitsSpecificFirst,
       required_labels |-> <<"GDP_bln_rub">>, reader |-> ""],
      [mapper |-> Mapper, units |-> UnitsGeneralFirst,
       required_labels |-> <<"GDP_yoy">>, reader |-> "q"] }

Documents == UNION {[1..n -> RowPool] : n \in 0..MaxRows}

MaxCarryRows == 6

CarryPool == {H_both, H_unit, H_unk, D_vals}

CarryDocuments == UNION {[1..n -> CarryPool] : n \in 0..MaxCarryRows}

MaxOrderRows == 5

\* a row of annual, quarterly and monthly cells; Q2 and March are empty
D_full == << <<"2", "0", "0", "0">> >> \o
          [j \in 1..(1 + Quarters + Months) |->
              IF j \in {3, 8} THEN <<>> ELSE <<"1">>]

OrderPool == {H_both, H_unit, D_vals, D_full}

OrderDocuments == UNION {[1..n -> OrderPool] : n \in 0..MaxOrderRows}

NoResult == [kind |-> "none", err |-> "", missed |-> {}, values |-> <<>>]

Raised(err, missed) ==
    [kind |-> "error", err |-> err, missed |-> missed, values |-> <<>>]

Returned(vs) == [kind |-> "ok", err |-> "", missed |-> {}, values |-> vs]

-----------------------------------------------------------------------------
\* evaluate_assignment (parser.py 17-22) as a sequence of steps

ParserInit(documents) ==
    /\ rows \in documents
    /\ pdef \in PdefPool
    /\ pc = "split"
    /\ i = 0
    /\ headers = <<>>
    /\ datarows = <<>>
    /\ state = "INIT"
    /\ tables = <<>>
    /\ result = NoResult

\* split_to_tables: one iteration of the loop over rows
SplitRow ==
    /\ pc = "split"
    /\ i < Len(rows)
    /\ LET row == rows[i + 1]
       IN  IF is_datarow(row)
           THEN /\ datarows' = Append(datarows, row)
                /\ state' = "DATA"
                /\ UNCHANGED <<headers, tables>>
           ELSE /\ IF state = "DATA"
                   THEN /\ tables' = Append(tables, Table(headers, datarows))
                        /\ headers' = <<row>>
                        /\ datarows' = <<>>
                   ELSE /\ headers' = Append(headers, row)
                        /\ UNCHANGED <<tables, datarows>>
                /\ state' = "HEADERS"
    /\ i' = i + 1
    /\ UNCHANGED <<rows, pdef, pc, result>>

\* after the loop, a final table for pending headers without data rows too
SplitEnd_headers_only ==
    /\ pc = "split"
    /\ i = Len(rows)
    /\ tables' = IF Len(headers) > 0
                 THEN Append(tables, Table(headers, datarows))
                 ELSE tables
    /\ pc' = "parse"
    /\ UNCHANGED <<rows, pdef, i, headers, datarows, state, result>>

\* split_to_tables: after the loop
SplitEnd ==
    /\ pc = "split"
    /\ i = Len(rows)
    /\ tables' = IF Len(headers) > 0 /\ Len(datarows) > 0
                 THEN Append(tables, Table(headers, datarows))
                 ELSE tables
    /\ pc' = "parse"
    /\ UNCHANGED <<rows, pdef, i, headers, datarows, state, result>>

\* tables = parse_tables(tables, pdef)
ParseTables ==
    /\ pc = "parse"
    /\ IF raises_unknown_shape(assign_all(tables, pdef))
       THEN /\ result' = Raised("UnknownRowShape", {})
            /\ pc' = "done"
            /\ UNCHANGED tables
       ELSE /\ tables' = parse_tables(tables, pdef)
            /\ pc' = "verify"
            /\ UNCHANGED result
    /\ UNCHANGED <<rows, pdef, i, headers, datarows, state>>

\* verify_tables(tables, pdef)
VerifyTables ==
    /\ pc = "verify"
    /\ IF labels_missed(tables, pdef) # {}
       THEN /\ result' = Raised("MissingRequiredLabels", labels_missed(tables, pdef))
            /\ pc' = "done"
       ELSE /\ pc' = "values"
            /\ UNCHANGED result
    /\ UNCHANGED <<rows, pdef, i, headers, datarows, state, tables>>

\* the filter on required labels and the returned list of values
ReturnValues ==
    /\ pc = "values"
    /\ LET r == all_values(required_tables(tables, pdef))
       IN  result' = IF r.kind = "error" THEN Raised("MalformedNumber", {})
                     ELSE Returned(r.v)
    /\ pc' = "done"
    /\ UNCHANGED <<rows, pdef, i, headers, datarows, state, tables>>

-----------------------------------------------------------------------------
\* get_boundaries (boundaries.py 4-70)

ShortenLen == 10

\* Boundary.find
find(line, rws) == \E j \in 1..Len(rws) : RowStartsWith(rws[j], line)

\* boundary_str with the found / NOT found texts swapped
boundary_str_swapped(name, line, rws) ==
    [name |-> name, is_found |-> ~ find(line, rws), line |-> Take(line, ShortenLen)]

\* Boundary.__str__: name, found or NOT found, the shortened line
boundary_str(name, line, rws) ==
    [name |-> name, is_found |-> find(line, rws), line |-> Take(line, ShortenLen)]

\* is_matched satisfied by one side alone
is_matched_either(start, end, rws) == find(start, rws) \/ find(end, rws)

\* Partition.is_matched
is_matched(start, end, rws) == find(start, rws) /\ find(end, rws)

ErrorHeading ==
    [name |-> "Start or end boundary not found:", is_found |-> FALSE, line |-> <<>>]

\* the loop of get_boundaries over the remaining pairs, error_message so far
RECURSIVE get_boundaries_from(_, _, _)
get_boundaries_from(boundaries, rws, error_message) ==
    IF boundaries = <<>>
    THEN [kind |-> "ValueError", start |-> <<>>, end |-> <<>>,
          message |-> error_message]
    ELSE LET m == Head(boundaries)
         IN  IF is_matched(m.start, m.end, rws)
             THEN [kind |-> "ok", start |-> m.start, end |-> m.end,
                   message |-> <<>>]
             ELSE get_boundaries_from(Tail(boundaries), rws,
                     error_message \o <<boundary_str("Start", m.start, rws),
                                        boundary_str("End", m.end, rws)>>)

get_boundaries(boundaries, rws) ==
    get_boundaries_from(boundaries, rws, <<ErrorHeading>>)

MaxPairs == 2

MaxMarkerRows == 2

MarkerPool == {<<>>, <<"a">>, <<"b">>, <<"c">>}

MarkerRowPool ==
    { << <<"a", "b">> >>, << <<" ", "c">>, <<"a">> >>, << <<"b", "a">> >> }

PairPool == [start : MarkerPool, end : MarkerPool]

NoBoundary == [kind |-> "none", start |-> <<>>, end |-> <<>>, message |-> <<>>]

BoundsIdle ==
    /\ b_in = [boundaries |-> <<>>, rows |-> <<>>]
    /\ b_out = NoBoundary

BoundsInit ==
    /\ b_in \in [boundaries : UNION {[1..n -> PairPool] : n \in 0..MaxPairs},
                 rows : UNION {[1..n -> MarkerRowPool] : n \in 0..MaxMarkerRows}]
    /\ b_out = NoBoundary

GetBoundaries ==
    /\ b_out.kind = "none"
    /\ b_out' = get_boundaries(b_in.boundaries, b_in.rows)
    /\ UNCHANGED b_in

-----------------------------------------------------------------------------
\* Scope (spec.py 126-186); rows of get_bounds are plain strings

\* Scope.__is_found
scope_is_found(line, rws) == \E j \in 1..Len(rws) : StartsWith(rws[j], line)

\* position of the first marker pair found in rws, 0 when there is none
RECURSIVE first_found(_, _, _)
first_found(markers, rws, k) ==
    IF k > Len(markers) THEN 0
    ELSE IF scope_is_found(markers[k].start, rws)
            /\ scope_is_found(markers[k].end, rws)
         THEN k
         ELSE first_found(markers, rws, k + 1)

ScopeOut(op, kind, start, end) ==
    [op |-> op, kind |-> kind, start |-> start, end |-> end]

\* Scope.get_bounds: ix stays False, so a match returns __markers[False],
\* the pair at index 0; without a match __error_message reads self.markers,
\* an attribute the class never sets
get_bounds(markers, rws) ==
    IF first_found(markers, rws, 1) # 0
    THEN ScopeOut("get_bounds", "ok", markers[1].start, markers[1].end)
    ELSE ScopeOut("get_bounds", "AttributeError", <<>>, <<>>)

MaxMarkers == 2

MaxScopeRows == 2

ScopeTextPool == {<<>>, <<"a">>, <<"a", "b">>, <<"c">>}

ScopeRowPool == {<<"a", "b">>, <<"c", "a">>, <<" ", "c">>}

ScopeIdle ==
    /\ sc_markers = <<>>
    /\ sc_alive = FALSE
    /\ sc_rows = <<>>
    /\ sc_out = ScopeOut("none", "none", <<>>, <<>>)

\* Scope.__init__(start, end)
ScopeNew ==
    /\ ~ sc_alive
    /\ \E start \in ScopeTextPool, end \in ScopeTextPool :
          IF start # <<>> /\ end # <<>>
          THEN /\ sc_markers' = <<[start |-> start, end |-> end]>>
               /\ sc_alive' = TRUE
               /\ sc_out' = ScopeOut("init", "ok", start, end)
          ELSE /\ sc_out' = ScopeOut("init", "ValueError", start, end)
               /\ UNCHANGED <<sc_markers, sc_alive>>
    /\ UNCHANGED sc_rows

\* add_bounds accepting a pair when either line is non-empty
AddBounds_either ==
    /\ sc_alive
    /\ Len(sc_markers) < MaxMarkers
    /\ \E start \in ScopeTextPool, end \in ScopeTextPool :
          IF start # <<>> \/ end # <<>>
          THEN /\ sc_markers' = Append(sc_markers, [start |-> start, end |-> end])
               /\ sc_out' = ScopeOut("add_bounds", "ok", start, end)
          ELSE /\ sc_out' = ScopeOut("add_bounds", "ValueError", start, end)
               /\ UNCHANGED sc_markers
    /\ UNCHANGED <<sc_alive, sc_rows>>

\* Scope.add_bounds(start, end)
AddBounds ==
    /\ sc_alive
    /\ Len(sc_markers) < MaxMarkers
    /\ \E start \in ScopeTextPool, end \in ScopeTextPool :
          IF start # <<>> /\ end # <<>>
          THEN /\ sc_markers' = Append(sc_markers, [start |-> start, end |-> end])
               /\ sc_out' = ScopeOut("add_bounds", "ok", start, end)
          ELSE /\ sc_out' = ScopeOut("add_bounds", "ValueError", start, end)
               /\ UNCHANGED sc_markers
    /\ UNCHANGED <<sc_alive, sc_rows>>

\* Scope.get_bounds(rows)
GetBounds ==
    /\ sc_alive
    /\ \E rws \in UNION {[1..n -> ScopeRowPool] : n \in 0..MaxScopeRows} :
          /\ sc_rows' = rws
          /\ sc_out' = get_bounds(sc_markers, rws)
    /\ UNCHANGED <<sc_markers, sc_alive>>

-----------------------------------------------------------------------------
\* DataBlock._extract_values on one data row, for any splitter

MaxCells == 17

Years == { <<"1", "9", "0", "0">>, <<"1", "9", "9", "9">>,
           <<"2", "0", "0", "0">>, <<"2", "0", "1", "6">> }

MaxHole == 3

\* texts of a cell without a value: empty, or the placeholder dash
BlankCells == {<<>>, <<"-">>}

\* a data row of n cells, the cell at position hole without a value
DataRow(year, n, hole, blank) ==
    <<year>> \o [j \in 1..n |-> IF j = hole THEN blank ELSE <<"1">>]

NoStream == [done |-> FALSE, stream |-> <<>>, values |-> <<>>, raised |-> FALSE]

TsIdle ==
    /\ ts_in = [row |-> <<>>, label |-> None, splitter_func |-> None]
    /\ ts_out = NoStream

TsInit ==
    /\ \E year \in Years, n \in 0..MaxCells, hole \in 0..MaxHole,
          blank \in BlankCells, sp \in SplitterNames :
          ts_in = [row |-> DataRow(year, n, hole, blank), label |-> "GDP_yoy",
                   splitter_func |-> sp]
    /\ ts_out = NoStream

ExtractRow ==
    /\ ~ ts_out.done
    /\ LET stream == extract_row(ts_in.row, ts_in.label, ts_in.splitter_func)
       IN  ts_out' =
             [done   |-> TRUE,
              stream |-> stream,
              values |-> extract_values(<<ts_in.row>>, ts_in.label,
                                        ts_in.splitter_func),
              raised |-> \E n \in 1..Len(stream) :
                            stream[n].value.kind = "MalformedNumber"]
    /\ UNCHANGED ts_in

-----------------------------------------------------------------------------
\* Checkpoints: isin (extractor.py 12-21), require and expect

MaxCheckpoints == 2

Dates == {1999, 2000, 2001}

Columns == {"A", "B"}

CellValues == {1, 2}

\* a dataframe: a date index, column labels and a value in every cell
Frames ==
    UNION {{[index |-> I, columns |-> C, at |-> f] : f \in [I \X C -> CellValues]} :
              I \in SUBSET Dates, C \in SUBSET Columns}

CheckpointPool == [date : Dates, name : Columns, value : CellValues]

CheckpointLists == UNION {[1..n -> CheckpointPool] : n \in 0..MaxCheckpoints}

\* what the selection of a date with no row raises: the date index is
\* looked up by year as a slice, which is a KeyError outside the range of
\* the index and an empty selection inside it, where .iloc[0] is an
\* IndexError
EmptySelectionErrors == {"KeyError", "IndexError"}

\* df.loc[dt, colname].iloc[0]
loc_first(df, dt, colname, empty_error) ==
    IF colname \notin df.columns THEN [kind |-> "KeyError", v |-> 0]
    ELSE IF dt \in df.index THEN [kind |-> "ok", v |-> df.at[<<dt, colname>>]]
    ELSE IF /\ df.index # {}
            /\ \/ \A d \in df.index : dt < d
               \/ \A d \in df.index : dt > d
         THEN [kind |-> "KeyError", v |-> 0]
         ELSE [kind |-> empty_error, v |-> 0]

\* is_found: only KeyError is caught
is_found(df, d, empty_error) ==
    LET r == loc_first(df, d.date, d.name, empty_error)
    IN  CASE r.kind = "ok"       -> [kind |-> "ok", v |-> r.v = d.value]
          [] r.kind = "KeyError" -> [kind |-> "ok", v |-> FALSE]
          [] OTHER               -> [kind |-> r.kind, v |-> FALSE]

\* [is_found(df, c) for c in checkpoints]
isin(checkpoints, df, empty_error) ==
    LET each == [n \in 1..Len(checkpoints) |-> is_found(df, checkpoints[n], empty_error)]
    IN  IF \E n \in 1..Len(each) : each[n].kind # "ok"
        THEN [kind |-> "IndexError", found |-> <<>>]
        ELSE [kind |-> "ok", found |-> [n \in 1..Len(each) |-> each[n].v]]

\* require: ValidationError when a checkpoint is not found
require(df, checkpoints, empty_error) ==
    LET r == isin(checkpoints, df, empty_error)
    IN  IF r.kind # "ok" THEN r.kind
        ELSE IF \E n \in 1..Len(r.found) : ~ r.found[n] THEN "ValidationError"
        ELSE "ok"

\* expect: checkpoints not found are reported, never raised
expect(df, checkpoints, empty_error) ==
    LET r == isin(checkpoints, df, empty_error)
    IN  IF r.kind # "ok" THEN r.kind ELSE "ok"

CpOut(op, kind, found) == [op |-> op, kind |-> kind, found |-> found]

CpIdle ==
    /\ cp_in = [df |-> [index |-> {}, columns |-> {}, at |-> <<>>],
                checkpoints |-> <<>>]
    /\ cp_out = CpOut("none", "ok", <<>>)

CpInit ==
    /\ cp_in \in [df : Frames, checkpoints : CheckpointLists]
    /\ cp_out = CpOut("none", "ok", <<>>)

Isin ==
    /\ cp_out.op = "none"
    /\ \E e \in EmptySelectionErrors :
          LET r == isin(cp_in.checkpoints, cp_in.df, e)
          IN  cp_out' = CpOut("isin", r.kind, r.found)
    /\ UNCHANGED cp_in

Require ==
    /\ cp_out.op = "none"
    /\ \E e \in EmptySelectionErrors :
          cp_out' = CpOut("require", require(cp_in.df, cp_in.checkpoints, e), <<>>)
    /\ UNCHANGED cp_in

Expect ==
    /\ cp_out.op = "none"
    /\ \E e \in EmptySelectionErrors :
          cp_out' = CpOut("expect", expect(cp_in.df, cp_in.checkpoints, e), <<>>)
    /\ UNCHANGED cp_in

-----------------------------------------------------------------------------
\* The UNITS table (spec.py 11-44) and the unit it resolves for a header.
\* A phrase is the sequence of its words, transliterated; the phrases of the
\* table contain one another as word sequences exactly when they do as
\* character strings.

UNITS ==
    << [k |-> << "mlrd.dollarov" >>,
        v |-> "bln_usd"],
       [k |-> << "mlrd.", "dollarov" >>,
        v |-> "bln_usd"],
       [k |-> << "mlrd,", "dollarov" >>,
        v |-> "bln_usd"],
       [k |-> << "mlrd.rubley" >>,
        v |-> "bln_rub"],
       [k |-> << "mlrd.", "rubley" >>,
        v |-> "bln_rub"],
       [k |-> << "rubley", "/", "rubles" >>,
        v |-> "rub"],
       [k |-> << "mln.rubley" >>,
        v |-> "mln_rub"],
       [k |-> << "Indeks", "fizicheskogo", "obema", "proizvedennogo", "VVP,", "v", "%" >>,
        v |-> "yoy"],
       [k |-> << "v", "%", "k", "dekabryu", "predydushchego", "goda" >>,
        v |-> "ytd"],
       [k |-> << "v", "%", "k", "predydushchemu", "mesyatsu" >>,
        v |-> "rog"],
       [k |-> << "v", "%", "k", "predydushchemu", "periodu" >>,
        v |-> "rog"],
       [k |-> << "%", "k", "kontsu", "predydushchego", "perioda" >>,
        v |-> "rog"],
       [k |-> << "period", "s", "nachala", "otchetnogo", "goda", "v", "%", "k", "sootvetstvuyushchemu", "periodu", "predydushchego", "goda" >>,
        v |-> "ytd"],
       [k |-> << "v", "%", "k", "sootvetstvuyushchemu", "periodu", "predydushchego", "goda" >>,
        v |-> "yoy"],
       [k |-> << "v", "%", "k", "sootvetstvuyushchemu", "mesyatsu", "predydushchego", "goda" >>,
        v |-> "yoy"],
       [k |-> << "otchetnyy", "mesyats", "v", "%", "k", "predydushchemu", "mesyatsu" >>,
        v |-> "rog"],
       [k |-> << "otchetnyy", "mesyats", "v", "%", "k", "sootvetstvuyushchemu", "mesyatsu", "predydushchego", "goda" >>,
        v |-> "yoy"],
       [k |-> << "period", "s", "nachala", "otchetnogo", "goda" >>,
        v |-> "ytd"],
       [k |-> << "%" >>,
        v |-> "pct"],
       [k |-> << "v", "%", "k", "VVP" >>,
        v |-> "gdp_percent"],
       [k |-> << "produkty", "pitaniya" >>,
        v |-> "rog"],
       [k |-> << "alkogolnye", "napitki" >>,
        v |-> "rog"],
       [k |-> << "neprodovolstvennye", "tovary" >>,
        v |-> "rog"],
       [k |-> << "neprodovolst-", "vennye", "tovary" >>,
        v |-> "rog"],
       [k |-> << "uslugi" >>,
        v |-> "rog"] >>

MaxPhrases == 2

\* header texts made of registered phrases
RECURSIVE PhraseTexts(_)
PhraseTexts(n) ==
    IF n = 0 THEN {<<>>}
    ELSE {UNITS[p].k \o t : p \in 1..Len(UNITS), t \in PhraseTexts(n - 1)}

UnitHeaders == UNION {PhraseTexts(n) : n \in 1..MaxPhrases}

UnitsIdle ==
    /\ un_in = <<>>
    /\ un_out = [done |-> FALSE, unit |-> None]

UnitsInit ==
    /\ \E text \in UnitHeaders : un_in = <<text>>
    /\ un_out = [done |-> FALSE, unit |-> None]

\* Row(row).get_unit(UNITS)
ResolveUnit ==
    /\ ~ un_out.done
    /\ un_in # <<>>
    /\ un_out' = [done |-> TRUE, unit |-> get_unit(un_in, UNITS)]
    /\ UNCHANGED un_in

-----------------------------------------------------------------------------
\* make_parsing_definition (parsing_definition.py 41-78).
\* A str or a list argument is [kind, v]; a dict is a sequence of [k, v] in
\* insertion order.

MaxCommands == 2

Str(x) == [kind |-> "str", v |-> x]

List(x) == [kind |-> "list", v |-> x]

\* iterate(x): a list as it is, a single value as a list of one
iterate(x) == IF x.kind = "list" THEN x.v ELSE <<x.v>>

\* result[key] = value: a present key keeps its place and takes the value
RECURSIVE dict_set(_, _, _)
dict_set(d, key, value) ==
    IF d = <<>> THEN <<[k |-> key, v |-> value]>>
    ELSE IF Head(d).k = key THEN <<[k |-> key, v |-> value]>> \o Tail(d)
         ELSE <<Head(d)>> \o dict_set(Tail(d), key, value)

\* the inner loop of make_table_header_mapper over the headers of a command
RECURSIVE map_headers(_, _, _)
map_headers(acc, hs, var) ==
    IF hs = <<>> THEN acc
    ELSE map_headers(dict_set(acc, Head(hs), var), Tail(hs), var)

RECURSIVE table_header_mapper_from(_, _)
table_header_mapper_from(acc, commands) ==
    IF commands = <<>> THEN acc
    ELSE table_header_mapper_from(
            map_headers(acc, iterate(Head(commands).header), Head(commands).var),
            Tail(commands))

make_table_header_mapper(commands) == table_header_mapper_from(<<>>, commands)

RECURSIVE make_required_labels(_)
make_required_labels(commands) ==
    IF commands = <<>> THEN <<>>
    ELSE LET c  == Head(commands)
             us == iterate(c.unit)
         IN  [n \in 1..Len(us) |-> make_label(c.var, us[n])]
                \o make_required_labels(Tail(commands))

\* the module-level units table, the default of the parameter units
DefaultUnits == UNITS

\* make_parsing_definition: the field units is the module-level table
make_parsing_definition(commands, boundaries, reader, units) ==
    [mapper          |-> make_table_header_mapper(commands),
     required_labels |-> make_required_labels(commands),
     boundaries      |-> boundaries,
     reader          |-> reader,
     units           |-> DefaultUnits]

CommandPool ==
    [var    : {"GDP", "CPI"},
     header : {Str(<<"G">>), List(<<<<"G">>, <<"C">>>>), List(<<<<"C">>>>)},
     unit   : {Str("yoy"), List(<<"bln_rub", "yoy">>), List(<<>>)}]

CommandLists == UNION {[1..n -> CommandPool] : n \in 0..MaxCommands}

BoundariesPool == {<<>>, <<[start |-> <<"a">>, end |-> <<"b">>]>>}

\* the units argument: not passed, or a mapping of the caller
NotPassed == "NotPassed"

UnitsArguments == {NotPassed, UnitsSpecificFirst, UnitsGeneralFirst}

NoDefinition ==
    [done |-> FALSE,
     definition |-> [mapper |-> <<>>, required_labels |-> <<>>,
                     boundaries |-> <<>>, reader |-> "", units |-> <<>>]]

DefinitionIdle ==
    /\ pd_in = [commands |-> <<>>, boundaries |-> <<>>, reader |-> "",
                units |-> NotPassed]
    /\ pd_out = NoDefinition

DefinitionInit ==
    /\ pd_in \in [commands : CommandLists, boundaries : BoundariesPool,
                  reader : {"", "q"}, units : UnitsArguments]
    /\ pd_out = NoDefinition

\* one call of make_parsing_definition
MakeParsingDefinition ==
    /\ ~ pd_out.done
    /\ pd_out' =
          [done |-> TRUE,
           definition |->
              make_parsing_definition(
                 pd_in.commands, pd_in.boundaries, pd_in.reader,
                 IF pd_in.units = NotPassed THEN DefaultUnits ELSE pd_in.units)]
    /\ UNCHANGED pd_in

-----------------------------------------------------------------------------
\* Specifications

ParserIdle ==
    /\ rows = <<>>
    /\ pdef = [mapper |-> <<>>, units |-> <<>>, required_labels |-> <<>>,
               reader |-> ""]
    /\ pc = "done"
    /\ i = 0
    /\ headers = <<>>
    /\ datarows = <<>>
    /\ state = "INIT"
    /\ tables = <<>>
    /\ result = NoResult

\* evaluate_assignment on every document and definition
Init == ParserInit(Documents) /\ BoundsIdle /\ ScopeIdle /\ TsIdle /\ CpIdle /\ UnitsIdle /\ DefinitionIdle

Next ==
    /\ \/ SplitRow
       \/ SplitEnd
       \/ ParseTables
       \/ VerifyTables
       \/ ReturnValues
    /\ UNCHANGED <<bounds_vars, scope_vars, ts_vars, cp_vars, un_vars, pd_vars>>

Spec == Init /\ [][Next]_vars

\* evaluate_assignment on longer documents of fewer kinds of rows, up to
\* three tables in a row
InitCarry == ParserInit(CarryDocuments) /\ BoundsIdle /\ ScopeIdle /\ TsIdle /\ CpIdle /\ UnitsIdle /\ DefinitionIdle

SpecCarry == InitCarry /\ [][Next]_vars

\* evaluate_assignment on documents whose rows hold annual, quarterly and
\* monthly cells
InitOrder == ParserInit(OrderDocuments) /\ BoundsIdle /\ ScopeIdle /\ TsIdle /\ CpIdle /\ UnitsIdle /\ DefinitionIdle

SpecOrder == InitOrder /\ [][Next]_vars

\* get_boundaries on every list of pairs and rows
InitBoundaries == ParserIdle /\ BoundsInit /\ ScopeIdle /\ TsIdle /\ CpIdle /\ UnitsIdle /\ DefinitionIdle

NextBoundaries == GetBoundaries /\ UNCHANGED <<parser_vars, scope_vars, ts_vars, cp_vars, un_vars, pd_vars>>

SpecBoundaries == InitBoundaries /\ [][NextBoundaries]_vars

\* a Scope under construction, add_bounds and get_bounds calls
InitScope == ParserIdle /\ BoundsIdle /\ ScopeIdle /\ TsIdle /\ CpIdle /\ UnitsIdle /\ DefinitionIdle

NextScope ==
    /\ \/ ScopeNew
       \/ AddBounds
       \/ GetBounds
    /\ UNCHANGED <<parser_vars, bounds_vars, ts_vars, cp_vars, un_vars, pd_vars>>

SpecScope == InitScope /\ [][NextScope]_vars

\* _extract_values on every data row and splitter
InitTimestamps == ParserIdle /\ BoundsIdle /\ ScopeIdle /\ TsInit /\ CpIdle /\ UnitsIdle /\ DefinitionIdle

NextTimestamps == ExtractRow /\ UNCHANGED <<parser_vars, bounds_vars, scope_vars, cp_vars, un_vars, pd_vars>>

SpecTimestamps == InitTimestamps /\ [][NextTimestamps]_vars

\* isin, require and expect on every small dataframe and list of checkpoints
InitCheckpoints == ParserIdle /\ BoundsIdle /\ ScopeIdle /\ TsIdle /\ CpInit /\ UnitsIdle /\ DefinitionIdle

NextCheckpoints ==
    /\ \/ Isin
       \/ Require
       \/ Expect
    /\ UNCHANGED <<parser_vars, bounds_vars, scope_vars, ts_vars, un_vars, pd_vars>>

SpecCheckpoints == InitCheckpoints /\ [][NextCheckpoints]_vars

\* get_unit with the UNITS table on headers made of its phrases
InitUnits == ParserIdle /\ BoundsIdle /\ ScopeIdle /\ TsIdle /\ CpIdle /\ UnitsInit /\ DefinitionIdle

NextUnits ==
    ResolveUnit /\ UNCHANGED <<parser_vars, bounds_vars, scope_vars, ts_vars, cp_vars, pd_vars>>

SpecUnits == InitUnits /\ [][NextUnits]_vars

\* make_parsing_definition on every small list of commands
InitDefinition ==
    /\ ParserIdle /\ BoundsIdle /\ ScopeIdle /\ TsIdle /\ CpIdle /\ UnitsIdle
    /\ DefinitionInit

NextDefinition ==
    /\ MakeParsingDefinition
    /\ UNCHANGED <<parser_vars, bounds_vars, scope_vars, ts_vars, cp_vars, un_vars>>

SpecDefinition == InitDefinition /\ [][NextDefinition]_vars

-----------------------------------------------------------------------------
\* Properties of the segmenter and of evaluate_assignment

\* parse_tables has returned: tables holds the parsed tables
TablesParsed ==
    \/ pc \in {"verify", "values"}
    \/ pc = "done" /\ result.err # "UnknownRowShape"

\* C1: every Table emitted by split_to_tables has at least one header row
\* and at least one data row.
C1_TableHasHeaderAndData ==
    \A j \in 1..Len(tables) :
        Len(tables[j].header) >= 1 /\ Len(tables[j].datarows) >= 1

\* labels of the observations the parsed tables yield
ProducedLabels ==
    {o.label : o \in UNION {Range(values(tables[j]).v) : j \in 1..Len(tables)}}

\* C2: when a required label is absent from the produced observations,
\* evaluate_assignment fails with the missing-labels error naming exactly
\* the required labels minus the produced labels.
C2_CompletenessGate ==
    (pc = "done" /\ result.err \notin {"UnknownRowShape", "MalformedNumber"}) =>
        LET missing == Range(pdef.required_labels) \ ProducedLabels
        IN  missing # {} =>
                /\ result.kind = "error"
                /\ result.err = "MissingRequiredLabels"
                /\ result.missed = missing

\* the variable name a table's own header rows resolve: the last match
OwnVarname(t) ==
    LET hits == {j \in 1..Len(t.header) : get_varname(t.header[j], pdef.mapper) # None}
    IN  IF hits = {} THEN None
        ELSE get_varname(t.header[CHOOSE j \in hits : \A h \in hits : h <= j],
                         pdef.mapper)

\* some header row matched neither a variable name nor a unit
HasUnparsedRow(t) ==
    \E j \in 1..Len(t.header) :
        /\ get_varname(t.header[j], pdef.mapper) = None
        /\ get_unit(t.header[j], pdef.units) = None

\* C3: after parse_tables a table whose header resolved a variable name
\* keeps it; a table without one and with an unparsed header row has none;
\* a table without one whose header rows were all parsed has the variable
\* name of the table immediately before it (none for the first table).
C3_CarryForward ==
    TablesParsed =>
        \A j \in 1..Len(tables) :
            LET t == tables[j]
            IN  /\ OwnVarname(t) # None => t.varname = OwnVarname(t)
                /\ (OwnVarname(t) = None /\ HasUnparsedRow(t)) => t.varname = None
                /\ (OwnVarname(t) = None /\ ~ HasUnparsedRow(t) /\ j > 1) =>
                        t.varname = tables[j - 1].varname
                /\ (OwnVarname(t) = None /\ j = 1) => t.varname = None

\* C3 witness: three tables, the first named by its own header, the
\* second and the third unit-only, the name carried through both.
C3_Witness ==
    /\ TablesParsed
    /\ Len(tables) = 3
    /\ OwnVarname(tables[1]) = "GDP"
    /\ \A j \in 2..3 :
          /\ OwnVarname(tables[j]) = None
          /\ Len(tables[j].header) >= 1
          /\ ~ HasUnparsedRow(tables[j])
          /\ tables[j].varname = "GDP"

\* entries of the unit mapping whose phrase occurs in the header row
UnitMatches(row) ==
    {e \in 1..Len(pdef.units) : Contains(RowName(row), pdef.units[e].k)}

\* header rows of a table that match some unit entry
UnitRows(t) == {j \in 1..Len(t.header) : UnitMatches(t.header[j]) # {}}

Least(S) == CHOOSE x \in S : \A y \in S : x <= y

Greatest(S) == CHOOSE x \in S : \A y \in S : y <= x

\* C9: the unit a header row resolves is the unit of the earliest
\* registered entry whose phrase occurs in it, so the unit of a table is
\* that unit for its last header row matching any entry.
C9_HeaderPriority ==
    TablesParsed =>
        \A j \in 1..Len(tables) :
            LET t == tables[j]
            IN  IF UnitRows(t) = {} THEN t.unit = None
                ELSE t.unit =
                    pdef.units[Least(UnitMatches(t.header[Greatest(UnitRows(t))]))].v

\* C9 witness: a header row matched by two entries with different units,
\* one phrase inside the other, resolved to the earlier entry's unit.
C9_Witness ==
    /\ TablesParsed
    /\ \E j \in 1..Len(tables) :
          /\ UnitRows(tables[j]) # {}
          /\ LET row == tables[j].header[Greatest(UnitRows(tables[j]))]
             IN  \E e1 \in UnitMatches(row), e2 \in UnitMatches(row) :
                    /\ e1 < e2
                    /\ Contains(pdef.units[e2].k, pdef.units[e1].k)
                    /\ pdef.units[e1].v # pdef.units[e2].v
                    /\ tables[j].unit = pdef.units[e1].v

\* C10: every observation evaluate_assignment returns carries a label of
\* the definition's required labels.
C10_OnlyRequiredLabels ==
    (pc = "done" /\ result.kind = "ok") =>
        \A n \in 1..Len(result.values) :
            result.values[n].label \in Range(pdef.required_labels)

\* C10 witness: a table with observations and a label that is not
\* required was dropped while other observations were returned.
C10_Witness ==
    /\ pc = "done"
    /\ result.kind = "ok"
    /\ result.values # <<>>
    /\ \E j \in 1..Len(tables) :
          /\ label(tables[j]) \notin Range(pdef.required_labels)
          /\ values(tables[j]).v # <<>>

\* a row that starts with a year and whose first cell after the year is
\* text that is neither empty, nor a placeholder, nor a number
IsMalformedRow(row) ==
    /\ is_year(RowName(row))
    /\ Len(row) >= 2
    /\ to_float(row[2]).kind = "MalformedNumber"

\* C8: extraction over a document with such a row ends in MalformedNumber,
\* and the segmenter never files the row among the header rows.
C8_MalformedCellRaises ==
    /\ (pc = "done" /\ \E n \in 1..Len(rows) : IsMalformedRow(rows[n])) =>
            result.err = "MalformedNumber"
    /\ \A n \in 1..Len(headers) : ~ IsMalformedRow(headers[n])
    /\ \A j \in 1..Len(tables) : \A n \in 1..Len(tables[j].header) :
            ~ IsMalformedRow(tables[j].header[n])

-----------------------------------------------------------------------------
\* Properties of get_boundaries

\* positions of the pairs whose start and end each begin some row
MatchingPairs ==
    {k \in 1..Len(b_in.boundaries) :
        /\ \E r \in 1..Len(b_in.rows) :
              RowStartsWith(b_in.rows[r], b_in.boundaries[k].start)
        /\ \E r \in 1..Len(b_in.rows) :
              RowStartsWith(b_in.rows[r], b_in.boundaries[k].end)}

\* C4: get_boundaries returns the literal start and end of the first pair,
\* in list order, whose start begins some row and whose end begins some row.
C4_FirstMatchingPair ==
    (b_out.kind # "none" /\ MatchingPairs # {}) =>
        /\ b_out.kind = "ok"
        /\ b_out.start = b_in.boundaries[Least(MatchingPairs)].start
        /\ b_out.end = b_in.boundaries[Least(MatchingPairs)].end

\* C4 witness: only the second of two different pairs is present, its
\* markers on different rows with the end before the start, and it is returned.
C4_Witness ==
    /\ b_out.kind = "ok"
    /\ Len(b_in.boundaries) = 2
    /\ MatchingPairs = {2}
    /\ b_in.boundaries[1] # b_in.boundaries[2]
    /\ b_out.start = b_in.boundaries[2].start
    /\ b_out.end = b_in.boundaries[2].end
    /\ Len(b_in.rows) = 2
    /\ RowStartsWith(b_in.rows[2], b_out.start)
    /\ ~ RowStartsWith(b_in.rows[1], b_out.start)
    /\ RowStartsWith(b_in.rows[1], b_out.end)
    /\ ~ RowStartsWith(b_in.rows[2], b_out.end)

SideFound(line) ==
    \E r \in 1..Len(b_in.rows) : RowStartsWith(b_in.rows[r], line)

\* C6: when no pair matches, get_boundaries raises ValueError, returns no
\* pair, and the message holds, after its heading, for every pair in order
\* a Start entry and an End entry telling whether that side was found.
C6_NotFoundDiagnostic ==
    (b_out.kind # "none" /\ MatchingPairs = {}) =>
        /\ b_out.kind = "ValueError"
        /\ b_out.start = <<>> /\ b_out.end = <<>>
        /\ Len(b_out.message) = 1 + 2 * Len(b_in.boundaries)
        /\ \A k \in 1..Len(b_in.boundaries) :
              /\ b_out.message[2 * k].name = "Start"
              /\ b_out.message[2 * k].is_found = SideFound(b_in.boundaries[k].start)
              /\ b_out.message[2 * k + 1].name = "End"
              /\ b_out.message[2 * k + 1].is_found = SideFound(b_in.boundaries[k].end)

\* C6 witness: two pairs tried, neither matched, one side of one of them found.
C6_Witness ==
    /\ b_out.kind = "ValueError"
    /\ Len(b_in.boundaries) = 2
    /\ b_out.message[2].is_found
    /\ ~ b_out.message[3].is_found
    /\ ~ b_out.message[4].is_found

-----------------------------------------------------------------------------
\* Properties of Scope

\* positions of the marker pairs whose start and end each begin some row
ScopeMatching ==
    {k \in 1..Len(sc_markers) :
        /\ \E r \in 1..Len(sc_rows) : StartsWith(sc_rows[r], sc_markers[k].start)
        /\ \E r \in 1..Len(sc_rows) : StartsWith(sc_rows[r], sc_markers[k].end)}

\* C5: get_bounds returns the first pair, in registration order, whose
\* start and end are both found at the start of some row.
C5_ScopeFirstMatchingPair ==
    (sc_out.op = "get_bounds" /\ ScopeMatching # {}) =>
        /\ sc_out.kind = "ok"
        /\ sc_out.start = sc_markers[Least(ScopeMatching)].start
        /\ sc_out.end = sc_markers[Least(ScopeMatching)].end

\* C19: when no registered pair has both its start and its end found,
\* get_bounds raises ValueError: it returns no pair and fails with no
\* other kind of error.
C19_NoMatchValueError ==
    (sc_out.op = "get_bounds" /\ ScopeMatching = {}) => sc_out.kind = "ValueError"

\* one call on a Scope: the constructor and add_bounds append the pair they
\* accept and change nothing when they raise; get_bounds changes nothing
C20_Step ==
    /\ sc_out'.op \in {"init", "add_bounds"} =>
          IF sc_out'.start # <<>> /\ sc_out'.end # <<>>
          THEN /\ sc_out'.kind = "ok"
               /\ sc_markers' =
                     Append(sc_markers, [start |-> sc_out'.start, end |-> sc_out'.end])
          ELSE /\ sc_out'.kind = "ValueError"
               /\ sc_markers' = sc_markers
    /\ sc_out'.op = "get_bounds" => sc_markers' = sc_markers

C20_Pairs ==
    IF sc_alive
    THEN /\ Len(sc_markers) >= 1
         /\ \A k \in 1..Len(sc_markers) :
               sc_markers[k].start # <<>> /\ sc_markers[k].end # <<>>
    ELSE sc_markers = <<>>

\* C20: a constructed Scope always holds at least one pair, every pair has
\* a non-empty start and a non-empty end, and the pairs are in the order
\* they were added; add_bounds with an empty start or end raises ValueError
\* and leaves the pairs unchanged.
C20_ScopePairs ==
    /\ [][C20_Step]_vars
    /\ []C20_Pairs

\* C20 witness: a second, different pair was added after the pair of the
\* constructor.
C20_Witness ==
    /\ sc_alive
    /\ Len(sc_markers) = 2
    /\ sc_markers[1] # sc_markers[2]
    /\ sc_out = ScopeOut("add_bounds", "ok", sc_markers[2].start, sc_markers[2].end)

-----------------------------------------------------------------------------
\* Properties of the timestamps

\* number of days of a month of the Gregorian calendar
LastDay(y, m) ==
    IF m = 2
    THEN IF y % 400 = 0 \/ (y % 4 = 0 /\ y % 100 # 0) THEN 29 ELSE 28
    ELSE IF m \in {1, 3, 5, 7, 8, 10, 12} THEN 31 ELSE 30

PeriodEnd(y, m) == [y |-> y, m |-> m, d |-> LastDay(y, m)]

\* C7: in the stream of one data row the annual value is stamped Dec 31
\* of the row's year, the k-th quarterly value the last day of month 3k
\* and the k-th monthly value the last day of month k.
C7_PeriodEndTimestamps ==
    ts_out.done =>
        LET sp   == split_row(ts_in.splitter_func, RowData(ts_in.row))
            year == RowYear(ts_in.row)
            na   == IF sp.a # <<>> THEN 1 ELSE 0
            nq   == Len(sp.q)
            st   == ts_out.stream
        IN  /\ Len(st) = na + nq + Len(sp.m)
            /\ na = 1 => st[1].freq = "a" /\ st[1].time_index = PeriodEnd(year, 12)
            /\ \A k \in 1..nq :
                  /\ st[na + k].freq = "q"
                  /\ st[na + k].time_index = PeriodEnd(year, 3 * k)
            /\ \A k \in 1..Len(sp.m) :
                  /\ st[na + nq + k].freq = "m"
                  /\ st[na + nq + k].time_index = PeriodEnd(year, k)

\* C7 witness: a row of a leap year with an annual, four quarterly and
\* twelve monthly values, February stamped the 29th.
C7_Witness ==
    /\ ts_out.done
    /\ Len(ts_out.stream) = 1 + Quarters + Months
    /\ ts_out.stream[1].freq = "a"
    /\ ts_out.stream[1 + Quarters].freq = "q"
    /\ ts_out.stream[1 + Quarters + 2].freq = "m"
    /\ ts_out.stream[1 + Quarters + 2].time_index = [y |-> 2000, m |-> 2, d |-> 29]

\* the observations of one frequency stamped with the end of month m
StampedAt(freq, y, m) ==
    {n \in 1..Len(ts_out.values) :
        /\ ts_out.values[n].freq = freq
        /\ ts_out.values[n].time_index = PeriodEnd(y, m)}

\* number of cells of a sequence that hold a value
RECURSIVE CountValues(_)
CountValues(cells) ==
    IF cells = <<>> THEN 0
    ELSE (IF Head(cells) \in BlankCells THEN 0 ELSE 1) + CountValues(Tail(cells))

\* C11: every observation of a row has a value; a cell that is empty or
\* a placeholder yields no observation and no error, and every other cell
\* yields exactly one, stamped with the period of its own position.
C11_AbsentValueSkipped ==
    ts_out.done =>
        LET sp   == split_row(ts_in.splitter_func, RowData(ts_in.row))
            year == RowYear(ts_in.row)
        IN  /\ ~ ts_out.raised
            /\ \A n \in 1..Len(ts_out.values) : ts_out.values[n].value.kind = "float"
            /\ Len(ts_out.values) =
                  CountValues(<<sp.a>>) + CountValues(sp.q) + CountValues(sp.m)
            /\ Cardinality(StampedAt("a", year, 12)) = CountValues(<<sp.a>>)
            /\ \A k \in 1..Len(sp.q) :
                  Cardinality(StampedAt("q", year, 3 * k)) = CountValues(<<sp.q[k]>>)
            /\ \A k \in 1..Len(sp.m) :
                  Cardinality(StampedAt("m", year, k)) = CountValues(<<sp.m[k]>>)

\* C11 witness: four quarterly cells, the second a placeholder dash; the
\* three observations are stamped March, September and December.
C11_Witness ==
    /\ ts_out.done
    /\ ts_in.splitter_func = "q"
    /\ Len(RowData(ts_in.row)) = Quarters
    /\ RowData(ts_in.row)[2] = <<"-">>
    /\ Len(ts_out.values) = 3
    /\ ts_out.values[1].time_index.m = 3
    /\ ts_out.values[2].time_index.m = 9
    /\ ts_out.values[3].time_index.m = 12

-----------------------------------------------------------------------------
\* Order of the observations

\* a slot is a cell of a document: table t, data row r, frequency f
\* (0 annual, 1 quarterly, 2 monthly), period k
SlotSpace ==
    [t : 1..Len(tables), r : 1..MaxOrderRows, f : 0..2, k : 1..Months]

SlotCells(s) ==
    LET sp == split_row(tables[s.t].splitter_func,
                        RowData(tables[s.t].datarows[s.r]))
    IN  CASE s.f = 0 -> <<sp.a>>
          [] s.f = 1 -> sp.q
          [] s.f = 2 -> sp.m

\* the slots that hold a value, in the tables that are returned
OrderSlots ==
    {s \in SlotSpace :
        /\ label(tables[s.t]) \in Range(pdef.required_labels)
        /\ is_defined(tables[s.t])
        /\ s.r <= Len(tables[s.t].datarows)
        /\ s.k <= Len(SlotCells(s))
        /\ to_float(SlotCells(s)[s.k]).kind = "float"}

SlotObservation(s) ==
    LET y == RowYear(tables[s.t].datarows[s.r])
    IN  [label      |-> label(tables[s.t]),
         value      |-> to_float(SlotCells(s)[s.k]),
         time_index |-> CASE s.f = 0 -> PeriodEnd(y, 12)
                          [] s.f = 1 -> PeriodEnd(y, 3 * s.k)
                          [] s.f = 2 -> PeriodEnd(y, s.k),
         freq       |-> CASE s.f = 0 -> "a" [] s.f = 1 -> "q" [] s.f = 2 -> "m"]

\* document order: table, then row, then annual < quarterly < monthly, then
\* period
Before(u, s) ==
    \/ u.t < s.t
    \/ u.t = s.t /\ u.r < s.r
    \/ u.t = s.t /\ u.r = s.r /\ u.f < s.f
    \/ u.t = s.t /\ u.r = s.r /\ u.f = s.f /\ u.k < s.k

\* C12: the returned observations are the cells that hold a value, in
\* document order: by table, within a table by data row, within a row the
\* annual value, then the quarters 1..4, then the months 1..12.
C12_DocumentOrder ==
    (pc = "done" /\ result.kind = "ok") =>
        /\ Len(result.values) = Cardinality(OrderSlots)
        /\ \A s \in OrderSlots :
              result.values[1 + Cardinality({u \in OrderSlots : Before(u, s)})]
                 = SlotObservation(s)

\* C12 witness: two returned tables of different labels, the first with two
\* data rows, with annual, quarterly and monthly observations.
C12_Witness ==
    /\ pc = "done"
    /\ result.kind = "ok"
    /\ Len(tables) = 2
    /\ Len(tables[1].datarows) = 2
    /\ \A f \in 0..2 : \A t \in 1..2 : \E s \in OrderSlots : s.f = f /\ s.t = t
    /\ \E s \in OrderSlots : s.r = 2
    /\ label(tables[1]) # label(tables[2])

-----------------------------------------------------------------------------
\* Checkpoint validation

\* the checkpoint's date and label are in the dataframe with its value
CheckpointFound(c) ==
    /\ c.name \in cp_in.df.columns
    /\ c.date \in cp_in.df.index
    /\ cp_in.df.at[<<c.date, c.name>>] = c.value

AllCheckpointsFound ==
    \A n \in 1..Len(cp_in.checkpoints) : CheckpointFound(cp_in.checkpoints[n])

\* C14: require raises ValidationError when some checkpoint is not found and
\* returns when all are found; expect never raises; isin reports a
\* checkpoint whose label or date is missing as not found and raises no
\* lookup error.
C14_CheckpointValidation ==
    /\ cp_out.op = "require" =>
          cp_out.kind = IF AllCheckpointsFound THEN "ok" ELSE "ValidationError"
    /\ cp_out.op = "expect" => cp_out.kind = "ok"
    /\ cp_out.op = "isin" =>
          /\ cp_out.kind = "ok"
          /\ cp_out.found = [n \in 1..Len(cp_in.checkpoints) |->
                                CheckpointFound(cp_in.checkpoints[n])]

-----------------------------------------------------------------------------
\* The segmenter as a state machine

\* one step of the segmenter: a row is consumed, or the rows have ended
C15_Step ==
    /\ (pc = "split" /\ i' = i + 1) =>
          IF ~ is_datarow(rows[i + 1]) /\ state = "DATA"
          THEN /\ tables' = Append(tables, Table(headers, datarows))
               /\ headers' = <<rows[i + 1]>>
               /\ datarows' = <<>>
          ELSE tables' = tables
    /\ (pc = "split" /\ pc' = "parse") =>
          tables' = IF headers # <<>> /\ datarows # <<>>
                    THEN Append(tables, Table(headers, datarows))
                    ELSE tables

\* the rows of the emitted tables, in order
RECURSIVE TableRows(_)
TableRows(ts) ==
    IF ts = <<>> THEN <<>>
    ELSE Head(ts).header \o Head(ts).datarows \o TableRows(Tail(ts))

\* the emitted tables are consecutive runs of the document: header rows,
\* then the data rows up to the next header row; what is left of the
\* document is a run of header rows, or a document without header rows
C15_Runs ==
    LET used == TableRows(tables)
        rest == Drop(rows, Len(used))
    IN  /\ Len(used) <= Len(rows)
        /\ used = Take(rows, Len(used))
        /\ \A k \in 1..Len(tables) :
              /\ \A j \in 1..Len(tables[k].header) : ~ is_datarow(tables[k].header[j])
              /\ \A j \in 1..Len(tables[k].datarows) : is_datarow(tables[k].datarows[j])
              /\ tables[k].datarows # <<>>
              /\ k > 1 => tables[k].header # <<>>
        /\ \/ \A j \in 1..Len(rest) : ~ is_datarow(rest[j])
           \/ tables = <<>> /\ \A j \in 1..Len(rest) : is_datarow(rest[j])

-----------------------------------------------------------------------------
\* Order of the UNITS table

\* C16: a header consisting of exactly a registered phrase resolves to the
\* unit registered for that phrase: no phrase registered earlier is
\* contained in it with a different unit.
C16_SpecificBeforeGeneral ==
    un_out.done =>
        \A p \in 1..Len(UNITS) :
            un_in = <<UNITS[p].k>> => un_out.unit = UNITS[p].v

-----------------------------------------------------------------------------
\* Unknown header lines

\* entries of the variable-name mapping whose text occurs in the header row
VarnameMatches(row) ==
    {e \in 1..Len(pdef.mapper) : Contains(RowName(row), pdef.mapper[e].k)}

RowMatched(row) == VarnameMatches(row) # {} \/ UnitMatches(row) # {}

\* C17: after header resolution a header row is marked parsed iff it matched
\* a variable-name entry or a unit entry, and has_unknown_lines is true iff
\* some header row of the table matched neither.
C17_UnknownLines ==
    TablesParsed =>
        \A j \in 1..Len(tables) :
            LET t == tables[j]
            IN  /\ Len(t.is_parsed) = Len(t.header)
                /\ \A k \in 1..Len(t.header) :
                      t.is_parsed[k] <=> RowMatched(t.header[k])
                /\ has_unknown_lines(t) <=>
                      \E k \in 1..Len(t.header) : ~ RowMatched(t.header[k])

\* C17 witness: a table whose only header row matched a unit and no variable
\* name, without unknown lines, and a table with an unmatched header row.
C17_Witness ==
    /\ TablesParsed
    /\ Len(tables) = 2
    /\ Len(tables[1].header) = 1
    /\ VarnameMatches(tables[1].header[1]) = {}
    /\ UnitMatches(tables[1].header[1]) # {}
    /\ ~ has_unknown_lines(tables[1])
    /\ has_unknown_lines(tables[2])

-----------------------------------------------------------------------------
\* What parse_tables changes

\* the unit a table's own header rows resolve: the last row matching any
\* unit entry, by its earliest registered entry
OwnUnit(t) ==
    IF UnitRows(t) = {} THEN None
    ELSE pdef.units[Least(UnitMatches(t.header[Greatest(UnitRows(t))]))].v

\* the table as its own rows resolve it, before any carry-forward
OwnTable(t) == set_label(set_splitter(t, pdef.reader), pdef.mapper, pdef.units)

C18_Step ==
    (pc = "parse" /\ pc' = "verify") =>
        /\ Len(tables') = Len(tables)
        /\ \A j \in 1..Len(tables) :
              /\ tables'[j].unit = OwnUnit(tables[j])
              /\ tables'[j].header = tables[j].header
              /\ tables'[j].datarows = tables[j].datarows
              /\ [tables'[j] EXCEPT !.varname = OwnTable(tables[j]).varname]
                    = OwnTable(tables[j])
              /\ tables'[j].varname # OwnTable(tables[j]).varname =>
                    /\ j > 1
                    /\ OwnTable(tables[j]).varname = None
                    /\ tables'[j].varname = tables'[j - 1].varname

\* C18: parse_tables never carries a unit forward: each table's unit is what
\* its own header rows resolved (or unset), and the carry-forward changes
\* only the variable name, leaving units, splitters, header rows and data
\* rows as the table's own rows determine them.
C18_UnitNotCarried == [][C18_Step]_vars

\* C18 witness: the second table took the variable name of the first and
\* kept its own, different unit; the third, with an unknown header line,
\* has no unit although the table before it has one.
C18_Witness ==
    /\ pc = "verify"
    /\ Len(tables) = 3
    /\ OwnVarname(tables[2]) = None
    /\ tables[2].varname = tables[1].varname
    /\ tables[2].varname # None
    /\ tables[2].unit # None
    /\ tables[2].unit # tables[1].unit
    /\ tables[1].unit # None
    /\ tables[3].unit = None

-----------------------------------------------------------------------------
\* The definition make_parsing_definition returns

\* the (command, unit) pairs of the commands, in command order
RECURSIVE CommandUnits(_)
CommandUnits(commands) ==
    IF commands = <<>> THEN <<>>
    ELSE LET c  == Head(commands)
             us == IF c.unit.kind = "list" THEN c.unit.v ELSE <<c.unit.v>>
         IN  [n \in 1..Len(us) |-> [var |-> c.var, unit |-> us[n]]]
                \o CommandUnits(Tail(commands))

HeadersOf(c) ==
    IF c.header.kind = "list" THEN {c.header.v[n] : n \in 1..Len(c.header.v)}
    ELSE {c.header.v}

\* C21: the definition reflects the arguments: units is the mapping the
\* caller passed (the module default only when none is passed), boundaries
\* and reader are the arguments, required_labels holds one label per
\* (command, unit) in command order, and the mapper maps every header of
\* every command to that command's variable name.
C21_DefinitionReflectsArguments ==
    pd_out.done =>
        LET d  == pd_out.definition
            cu == CommandUnits(pd_in.commands)
        IN  /\ d.units = IF pd_in.units = NotPassed THEN DefaultUnits
                         ELSE pd_in.units
            /\ d.boundaries = pd_in.boundaries
            /\ d.reader = pd_in.reader
            /\ d.required_labels =
                  [n \in 1..Len(cu) |-> cu[n].var \o "_" \o cu[n].unit]
            /\ \A n \in 1..Len(pd_in.commands) :
                  \A h \in HeadersOf(pd_in.commands[n]) :
                     \E e \in 1..Len(d.mapper) :
                        d.mapper[e].k = h /\ d.mapper[e].v = pd_in.commands[n].var
            /\ \A e \in 1..Len(d.mapper) :
                  \E n \in 1..Len(pd_in.commands) :
                     d.mapper[e].k \in HeadersOf(pd_in.commands[n])

====
